---- MODULE Spec2Model ----
(***************************************************************************)
(* The Transformer agent of iDDS (idds/agents/transformer/transformer.py): *)
(* the persisted Transform / Collection / Content records, the units of    *)
(* work process_new_transform and process_monitor_transform, the           *)
(* aggregator check_output_contents that maps the content statuses of the  *)
(* Output collection to a transform status, and the agent loop run() with  *)
(* prepare_finish_tasks, the worker pool and the two output queues.        *)
(***************************************************************************)
EXTENDS Integers, Sequences, FiniteSets, TLC

\* ------------------------------------------------------------------ bounds

\* Largest number of contents of one status in a collection.
MaxCount == 2
\* Largest number of collections of one relation type owned by a transform.
MaxColls == 2

\* Iterations of the agent loop explored.
MaxIterations == 3
\* Largest number of results waiting in an output queue when it is drained alone.
MaxQueue == 2
\* Threads calling get_session at the same time.
MaxThreads == 3

\* session.py, lines 250, 294 and 339: stop_max_attempt_number of @retry.
stop_max_attempt_number == 2

\* ------------------------------------------------------------- enumerations

\* idds.common.constants.ContentStatus, in the order of the enum's values.
ContentStatusOrder == <<"New", "Processing", "Available", "Failed", "FinalFailed">>

ContentStatus == {ContentStatusOrder[i] : i \in 1..Len(ContentStatusOrder)}

\* idds.common.constants.CollectionStatus.
CollectionStatus == {"New", "Open", "Update", "Updated", "Closed", "SubClosed", "Failed"}

\* idds.common.constants.TransformStatus.
TransformStatus == {"Ready", "Transforming", "Finished", "Failed", "SubFinished"}

\* idds.common.constants.CollectionRelationType.
CollectionRelationType == {"Input", "Output", "Log"}

TransformIds == {1}

RequestIds == {1, 2}

\* How the persistence gateway hands out the keys of a statistics mapping: the
\* enum member itself, or the member's value.
KeyForms == {"enum", "value"}

\* What get_collections_by_request_transform_id returns: the list of Collection
\* rows that process_monitor_transform iterates, or the mapping
\* {request_id: {transform_id: [rows]}} that process_new_transform indexes.
CollectionShapes == {"list", "mapping"}

\* ---------------------------------------------------------------- state

VARIABLES
    transforms,     \* persisted Transform rows: transform_id -> row
    collections,    \* persisted Collection rows (a set of rows, coll_id unique)
    contents,       \* persisted Content rows: coll_id -> (ContentStatus -> count)
    keyForm,        \* the gateway's key form, see KeyForms
    keyReversed,    \* whether the statistics rows come back in descending order
    hasUpdated1,    \* whether CollectionStatus has a member named Updated1
    collsShape,     \* see CollectionShapes
    last,           \* the outcome of the last unit of work or method call
    loop,           \* the position of Transformer.run and what it has seen
    tasks,          \* units of work submitted to the worker pool, oldest first
    new_output_queue,      \* results of process_new_transform, oldest first
    monitor_output_queue,  \* results of process_monitor_transform, oldest first
    graceful_stop,  \* the stop signal
    build,          \* what the code outside this file provides, see Builds
    drain,          \* the last result finish_*_transforms took from a queue
    recent,         \* transforms updated within the monitor period (line 113)
    ledger,         \* per transform, the writes finish_*_transforms committed
    orm,            \* session.py: _ENGINE, _MAKER, _LOCK and the threads in get_session
    call            \* one call of a function decorated in session.py

\* The state of the agent loop, which the units of work leave alone.
agentVars == <<loop, tasks, new_output_queue, monitor_output_queue, graceful_stop, build, drain, recent, ledger>>

\* The state of orm/base/session.py, which the agent's methods leave alone.
sessionVars == <<orm, call>>

vars == <<transforms, collections, contents, keyForm, keyReversed, hasUpdated1, collsShape, last, agentVars, sessionVars>>

\* --------------------------------------------------------------- helpers

\* ContentStatus.X as a dictionary key, and ContentStatus.X.value as one.
EnumKey(s) == <<"enum", s>>

ValueKey(s) == <<"value", s>>

\* x in list
InList(x, list) == \E i \in 1..Len(list) : list[i] = x

RECURSIVE SortedByCollId(_)
\* The rows of `rows` (a set) as a list ordered by coll_id.
SortedByCollId(rows) ==
    IF rows = {} THEN <<>>
    ELSE LET first == CHOOSE r \in rows : \A q \in rows : r.coll_id <= q.coll_id
         IN <<first>> \o SortedByCollId(rows \ {first})

\* The Collection rows of a transform.
RowsOf(colls, transform_id) == {c \in colls : c.transform_id = transform_id}

\* The rows of `rows` with the given relation type, as a list.
CollectionsOf(rows, relation_type) ==
    SortedByCollId({c \in rows : c.relation_type = relation_type})

\* transform_metadata['status_statistics']: absent, or a statistics mapping.
NoStatistics == [set |-> FALSE, val |-> <<>>]

\* A call that did not happen yet.
NoCall ==
    [op |-> "none", transform_id |-> 0, outcome |-> "none", ret |-> "None",
     status |-> "", status_statistics |-> NoStatistics, prior |-> "",
     fetched |-> {}, read |-> FALSE, statistics |-> <<>>, writes |-> <<>>,
     processings |-> <<>>, derived |-> <<>>]

\* ------------------------------------------------- the persistence gateway

RECURSIVE StatisticsRows(_, _, _)
\* The (key, count) rows of the statuses that have contents, in enum order
\* from position i on.
StatisticsRows(counts, form, i) ==
    IF i > Len(ContentStatusOrder) THEN <<>>
    ELSE LET s == ContentStatusOrder[i]
             rest == StatisticsRows(counts, form, i + 1)
         IN IF counts[s] > 0 THEN <<(<<(<<form, s>>), counts[s]>>)>> \o rest ELSE rest

Reverse(list) == [i \in 1..Len(list) |-> list[Len(list) + 1 - i]]

\* core_catalog.get_content_status_statistics(coll_id): status -> count over the
\* contents of the collection, one entry per status that occurs.
get_content_status_statistics(db_contents, coll_id, form, reversed) ==
    LET rows == StatisticsRows(db_contents[coll_id], form, 1)
    IN IF reversed THEN Reverse(rows) ELSE rows

\* core_catalog.update_collection(coll_id, parameters) as a recorded write.
UpdateCollectionWrite(coll_id, coll_status) ==
    [call |-> "update_collection", coll_id |-> coll_id, coll_status |-> coll_status]

\* core_catalog.add_contents(contents) as a recorded write.
AddContentsWrite(coll_id) ==
    [call |-> "add_contents", coll_id |-> coll_id, coll_status |-> ""]

\* One gateway write applied to the Collection rows.
ApplyCollectionWrite(colls, w) ==
    IF w.call = "update_collection"
    THEN {IF c.coll_id = w.coll_id THEN [c EXCEPT !.coll_status = w.coll_status] ELSE c : c \in colls}
    ELSE colls

RECURSIVE ApplyCollectionWrites(_, _)
\* The gateway writes of one call applied in order.
ApplyCollectionWrites(colls, writes) ==
    IF writes = <<>> THEN colls
    ELSE ApplyCollectionWrites(ApplyCollectionWrite(colls, Head(writes)), Tail(writes))

\* --------------------------------------------- Transformer.check_output_contents

\* list(contents.keys())
KeysOf(statistics) == [i \in 1..Len(statistics) |-> statistics[i][1]]

\* Line 158 without its second comparison, against ContentStatus.Available.value.
IsOnlyAvailable_EnumOnly(content_status_keys) ==
    content_status_keys = <<EnumKey("Available")>>

\* Line 158 as a membership test instead of a comparison of the whole list.
IsOnlyAvailable_Membership(content_status_keys) ==
    \/ InList(EnumKey("Available"), content_status_keys)
    \/ InList(ValueKey("Available"), content_status_keys)

\* transformer.py:158
IsOnlyAvailable(content_status_keys) ==
    \/ content_status_keys = <<EnumKey("Available")>>
    \/ content_status_keys = <<ValueKey("Available")>>

\* Line 162 without its second comparison, against ContentStatus.FinalFailed.value.
IsOnlyFinalFailed_EnumOnly(content_status_keys) ==
    content_status_keys = <<EnumKey("FinalFailed")>>

\* transformer.py:162
IsOnlyFinalFailed(content_status_keys) ==
    \/ content_status_keys = <<EnumKey("FinalFailed")>>
    \/ content_status_keys = <<ValueKey("FinalFailed")>>

\* Lines 166-168 as a comparison with the list [Available, FinalFailed].
IsAvailableAndFinalFailed_Ordered(content_status_keys) ==
    \/ content_status_keys = <<EnumKey("Available"), EnumKey("FinalFailed")>>
    \/ content_status_keys = <<ValueKey("Available"), ValueKey("FinalFailed")>>

\* Lines 166-168 without the test of the length on line 166.
IsAvailableAndFinalFailed_NoLength(content_status_keys) ==
    /\ (InList(EnumKey("FinalFailed"), content_status_keys) \/ InList(ValueKey("FinalFailed"), content_status_keys))
    /\ (InList(EnumKey("Available"), content_status_keys) \/ InList(ValueKey("Available"), content_status_keys))

\* transformer.py:166-168
IsAvailableAndFinalFailed(content_status_keys) ==
    /\ Len(content_status_keys) = 2
    /\ (InList(EnumKey("FinalFailed"), content_status_keys) \/ InList(ValueKey("FinalFailed"), content_status_keys))
    /\ (InList(EnumKey("Available"), content_status_keys) \/ InList(ValueKey("Available"), content_status_keys))

\* Lines 172-173 without the two tests for ContentStatus.Failed on line 173.
HasNewOrFailed_NewOnly(content_status_keys) ==
    InList(EnumKey("New"), content_status_keys) \/ InList(ValueKey("New"), content_status_keys)

\* transformer.py:172-173
HasNewOrFailed(content_status_keys) ==
    \/ InList(EnumKey("New"), content_status_keys) \/ InList(ValueKey("New"), content_status_keys)
    \/ InList(EnumKey("Failed"), content_status_keys) \/ InList(ValueKey("Failed"), content_status_keys)

\* A call that raised before it read or wrote anything.
Raised(op, transform, exception) ==
    [NoCall EXCEPT !.op = op, !.transform_id = transform.transform_id,
                   !.outcome = exception, !.prior = transform.status]

\* A call of check_output_contents that returned `transform` with the given
\* status and, when `attach`, with status_statistics set to the statistics read.
Checked(transform, status, attach, statistics, writes, processings) ==
    [op |-> "check_output_contents", transform_id |-> transform.transform_id, fetched |-> {},
     outcome |-> "return", ret |-> "transform", status |-> status,
     status_statistics |-> IF attach THEN [set |-> TRUE, val |-> statistics]
                           ELSE transform.transform_metadata.status_statistics,
     prior |-> transform.status, read |-> TRUE, statistics |-> statistics,
     writes |-> writes, processings |-> processings, derived |-> <<>>]

\* Transformer.generate_processing: a stub (pass); the call is recorded.
generate_processing(transform) ==
    <<[call |-> "generate_processing", transform_id |-> transform.transform_id]>>

check_output_contents(transform, input_collections, output_collections, log_collections, db_contents, form, reversed) ==
    IF Len(input_collections) > 1 \/ Len(output_collections) > 1 \/ Len(log_collections) > 1
    THEN Raised("check_output_contents", transform, "IDDSException")
    ELSE IF Len(output_collections) = 0
    THEN Raised("check_output_contents", transform, "IndexError")
    ELSE
      LET output_collection == output_collections[1]
          stats == get_content_status_statistics(db_contents, output_collection.coll_id, form, reversed)
          content_status_keys == KeysOf(stats)
      IN IF IsOnlyAvailable(content_status_keys)
         THEN Checked(transform, "Finished", TRUE, stats,
                      <<UpdateCollectionWrite(output_collection.coll_id, "Closed")>>, <<>>)
         ELSE IF IsOnlyFinalFailed(content_status_keys)
         THEN Checked(transform, "Failed", TRUE, stats,
                      <<UpdateCollectionWrite(output_collection.coll_id, "Failed")>>, <<>>)
         ELSE IF IsAvailableAndFinalFailed(content_status_keys)
         THEN Checked(transform, "SubFinished", TRUE, stats,
                      <<UpdateCollectionWrite(output_collection.coll_id, "SubClosed")>>, <<>>)
         ELSE IF HasNewOrFailed(content_status_keys)
         THEN Checked(transform, "Transforming", TRUE, stats, <<>>, generate_processing(transform))
         ELSE Checked(transform, transform.status, FALSE, stats, <<>>, <<>>)

\* ----------------------------------------- Transformer.fill_new_output_contents

\* Transformer.get_new_output_contents: a stub (pass), it returns None, so that
\* add_contents is handed no content row.
get_new_output_contents(transform, input_collection, output_collection) == <<>>

\* A call of fill_new_output_contents that returned (None) after `writes`.
Filled(transform, writes) ==
    [NoCall EXCEPT !.op = "fill_new_output_contents", !.transform_id = transform.transform_id,
                   !.outcome = "return", !.prior = transform.status, !.writes = writes]

fill_new_output_contents(transform, input_collections, output_collections, log_collections) ==
    IF Len(input_collections) > 1 \/ Len(output_collections) > 1 \/ Len(log_collections) > 1
    THEN Raised("fill_new_output_contents", transform, "IDDSException")
    ELSE IF Len(input_collections) = 0 \/ Len(output_collections) = 0
    THEN Raised("fill_new_output_contents", transform, "IndexError")
    ELSE
      LET input_collection == input_collections[1]
          output_collection == output_collections[1]
      IN IF input_collection.coll_status = "Update"
         THEN Filled(transform,
                     <<AddContentsWrite(output_collection.coll_id),
                       UpdateCollectionWrite(input_collection.coll_id,
                           IF input_collection.coll_metadata.ddm_status = "closed" THEN "Closed" ELSE "Open"),
                       UpdateCollectionWrite(output_collection.coll_id, "Updated")>>)
         ELSE Filled(transform, <<>>)

\* ---------------------------------------- Transformer.process_monitor_transform

\* The result of a unit of work: the outcome of the method it ended in, under the
\* unit's name, with the rows it fetched and every write it made.
Unit(op, result, fetched, writes) ==
    [result EXCEPT !.op = op, !.fetched = fetched, !.writes = writes]

\* A unit of work that returned `ret` ("None" or "empty", the empty mapping)
\* without calling the aggregator.
Returned(op, transform, ret, fetched, writes) ==
    [NoCall EXCEPT !.op = op, !.transform_id = transform.transform_id, !.outcome = "return",
                   !.ret = ret, !.prior = transform.status, !.fetched = fetched, !.writes = writes]

\* Lines 197-199: the loop over the Output collections, after `writes`.
MonitorOutputCollections(transform, rows, writes, db_contents, form, reversed, updated1) ==
    LET input_collections == CollectionsOf(rows, "Input")
        output_collections == CollectionsOf(rows, "Output")
        log_collections == CollectionsOf(rows, "Log")
    IN IF output_collections = <<>>
       THEN Returned("process_monitor_transform", transform, "None", rows, writes)
       ELSE IF ~updated1
       THEN Unit("process_monitor_transform",
                 Raised("process_monitor_transform", transform, "AttributeError"), rows, writes)
       ELSE IF \E i \in 1..Len(output_collections) : output_collections[i].coll_status = "Updated1"
       THEN LET r == check_output_contents(transform, input_collections, output_collections,
                                           log_collections, db_contents, form, reversed)
            IN Unit("process_monitor_transform", r, rows, writes \o r.writes)
       ELSE Returned("process_monitor_transform", transform, "None", rows, writes)

process_monitor_transform(transform, db_collections, db_contents, form, reversed, updated1, shape) ==
    LET rows == RowsOf(db_collections, transform.transform_id)
        input_collections == CollectionsOf(rows, "Input")
        output_collections == CollectionsOf(rows, "Output")
        log_collections == CollectionsOf(rows, "Log")
    IN IF shape = "mapping"
       THEN \* the loop on line 185 runs over the request ids, the mapping's keys
            IF rows = {}
            THEN Returned("process_monitor_transform", transform, "None", rows, <<>>)
            ELSE Unit("process_monitor_transform",
                      Raised("process_monitor_transform", transform, "TypeError"), rows, <<>>)
       ELSE IF \E i \in 1..Len(input_collections) : input_collections[i].coll_status = "Updated"
       THEN LET f == fill_new_output_contents(transform, input_collections, output_collections, log_collections)
            IN IF f.outcome # "return"
               THEN Unit("process_monitor_transform", f, rows, f.writes)
               ELSE MonitorOutputCollections(transform, rows, f.writes, db_contents, form, reversed, updated1)
       ELSE MonitorOutputCollections(transform, rows, <<>>, db_contents, form, reversed, updated1)

\* -------------------------------------------- Transformer.process_new_transform

\* Lines 53-73. The method is defined without self and called on self with two
\* arguments (line 89), so the call raises before the body runs.
generate_transform_outputs(transform, colls) ==
    Raised("process_new_transform", transform, "TypeError")

\* The unit without the test of input_collection_changed on line 88.
process_new_transform_IgnoresChanged(transform, db_collections, shape) ==
    LET rows == RowsOf(db_collections, transform.transform_id)
        keys == IF shape = "mapping" /\ rows # {} THEN {transform.request_id} ELSE {}
        found == \E request_id \in keys : \E transform_id \in keys : transform_id = transform.transform_id
    IN IF found
       THEN Unit("process_new_transform", generate_transform_outputs(transform, SortedByCollId(rows)), rows, <<>>)
       ELSE Returned("process_new_transform", transform, "empty", rows, <<>>)

process_new_transform(transform, db_collections, shape) ==
    LET rows == RowsOf(db_collections, transform.transform_id)
        \* the keys of ret_collections: both loops of lines 82-83 run over them
        keys == IF shape = "mapping" /\ rows # {} THEN {transform.request_id} ELSE {}
        found == \E request_id \in keys : \E transform_id \in keys : transform_id = transform.transform_id
    IN IF found /\ transform.transform_metadata.input_collection_changed
       THEN Unit("process_new_transform", generate_transform_outputs(transform, SortedByCollId(rows)), rows, <<>>)
       ELSE Returned("process_new_transform", transform, "empty", rows, <<>>)

\* ------------------------------------------------------------ initial rows

\* coll_id of the k-th collection of a relation type.
CollId(relation_type, k) ==
    CASE relation_type = "Input" -> k
      [] relation_type = "Output" -> MaxColls + k
      [] relation_type = "Log" -> MaxColls + MaxColls + k

CollIds == 1..(MaxColls + MaxColls + MaxColls)

Collection(coll_id, transform_id, relation_type, coll_status, ddm_status) ==
    [coll_id |-> coll_id, transform_id |-> transform_id, relation_type |-> relation_type,
     coll_status |-> coll_status, coll_metadata |-> [ddm_status |-> ddm_status]]

Transform(transform_id, request_id, status, input_collection_changed) ==
    [transform_id |-> transform_id, request_id |-> request_id, status |-> status,
     transform_metadata |-> [input_collection_changed |-> input_collection_changed,
                             status_statistics |-> NoStatistics]]

\* n collections of one relation type, the k-th with status and ddm_status row[k].
CollectionRows(transform_id, relation_type, n, row) ==
    {Collection(CollId(relation_type, k), transform_id, relation_type, row[k][1], row[k][2]) : k \in 1..n}

NoContents == [s \in ContentStatus |-> 0]

\* ------------------------------------------------------------ the agent loop

\* The transforms of a run of the whole agent.
AgentTransformIds == TransformIds \cup {2}

\* What the code outside transformer.py provides. hasOutputQueues: whether the
\* agent has the attributes new_output_queue and monitor_output_queue (__init__,
\* lines 40-41, creates new_queue and monitor_queue). finishBinds: whether the
\* body of `if ret:` (lines 98-100, empty in the file) binds output_collection,
\* log_collection and transform_id from the result.
Builds == [hasOutputQueues : BOOLEAN, finishBinds : BOOLEAN]

\* A queued result: what the unit returned ("None", "empty" for {}, "result" for
\* the mapping of lines 72-73, "transform") and the transform it is about.
ResultItem(ret, transform) == [ret |-> ret, transform |-> transform]

NoItem == ResultItem("None", Transform(0, 0, "", FALSE))

NoDrain == [queue |-> "none", item |-> NoItem, outcome |-> "none", writes |-> <<>>, before |-> <<>>]

\* output, log: add_collection calls committed by finish_new_transforms; new,
\* monitor: update_transform calls committed by finish_new_transforms and by
\* finish_monitor_transforms; new_results, monitor_results: results taken from
\* the two queues; monitor_units: monitor units submitted; raced: two monitor
\* units of the transform were in flight together.
NoLedger == [output |-> 0, log |-> 0, new |-> 0, monitor |-> 0, new_results |-> 0, monitor_results |-> 0, monitor_units |-> 0, raced |-> FALSE]

LoopIdle == [pc |-> "idle", iterations |-> 0, caught |-> FALSE, begunAfterStop |-> FALSE, interrupted |-> FALSE]

\* The agent loop is not running: direct calls of the units and of the aggregator.
AgentIdle ==
    /\ loop = LoopIdle
    /\ tasks = <<>>
    /\ new_output_queue = <<>>
    /\ monitor_output_queue = <<>>
    /\ graceful_stop = FALSE
    /\ build = [hasOutputQueues |-> TRUE, finishBinds |-> FALSE]
    /\ drain = NoDrain
    /\ recent = {}
    /\ ledger = [t \in AgentTransformIds |-> NoLedger]

RECURSIVE AscendingIds(_)
AscendingIds(ids) ==
    IF ids = {} THEN <<>>
    ELSE LET first == CHOOSE t \in ids : \A u \in ids : t <= u
         IN <<first>> \o AscendingIds(ids \ {first})

\* core_transforms.update_transform(transform_id, parameter): the fields named
\* in `parameter` of that one row take the values of `values`.
update_transform(rows, transform_id, parameter, values) ==
    [rows EXCEPT ![transform_id] = [field \in DOMAIN @ |-> IF field \in parameter THEN values[field] ELSE @[field]]]

\* get_new_transforms, lines 48-49: the transforms with status Ready.
get_new_transforms(rows) == {t \in DOMAIN rows : rows[t].status = "Ready"}

\* get_monitor_transforms, lines 112-113: the transforms with status
\* Transforming that were not updated within the period.
get_monitor_transforms(rows, updated) == {t \in DOMAIN rows : rows[t].status = "Transforming" /\ t \notin updated}

\* submit_task(func, output_queue, transform) for each transform polled.
submit_task(queue, func, rows, ids) ==
    queue \o [i \in 1..Len(AscendingIds(ids)) |-> [func |-> func, transform |-> rows[AscendingIds(ids)[i]]]]

\* Lines 101-103: the gateway calls of finish_new_transforms for one result.
FinishNewCalls == <<"add_output_collection", "add_log_collection", "update_transform">>

\* The `if ret:` guard dropped: the names are bound for an empty result too.
finish_new_transform_Unguarded(item, binds, failAt) ==
    IF failAt = 0 THEN [writes |-> FinishNewCalls, outcome |-> "applied"]
    ELSE [writes |-> SubSeq(FinishNewCalls, 1, failAt - 1), outcome |-> "DatabaseException"]

\* Lines 96-106 for one result taken from new_output_queue: the calls committed
\* and how the try block ended, when the gateway fails at call failAt (0: never).
\* Each call commits on its own (session.py, transactional_session). With the
\* names unbound line 101 raises NameError, caught on line 104.
finish_new_transform(item, binds, failAt) ==
    IF ~(binds /\ item.ret = "result") THEN [writes |-> <<>>, outcome |-> "NameError"]
    ELSE IF failAt = 0 THEN [writes |-> FinishNewCalls, outcome |-> "applied"]
    ELSE [writes |-> SubSeq(FinishNewCalls, 1, failAt - 1), outcome |-> "DatabaseException"]

\* The whole row written back.
finish_monitor_parameter_AllKeys(transform) == DOMAIN transform

\* Lines 204-207: the keys copied from the result into `parameter`.
finish_monitor_parameter(transform) == {"status", "transform_metadata"} \cap DOMAIN transform

\* Lines 203-208 for one result taken from monitor_output_queue: `key in
\* transform` raises TypeError on None; nothing here catches an exception.
finish_monitor_transform(item, failed) ==
    IF item.ret = "None" THEN [parameter |-> {}, outcome |-> "TypeError"]
    ELSE IF failed THEN [parameter |-> {}, outcome |-> "DatabaseException"]
    ELSE [parameter |-> finish_monitor_parameter(item.transform), outcome |-> "applied"]

\* The loop never tests the stop signal.
LoopContinues_Always(stop) == TRUE

\* Line 239: while not self.graceful_stop.is_set().
LoopContinues(stop) == ~stop

\* The handlers of lines 243-246 re-raise.
run_except_Propagates(exception) == IF exception = "KeyboardInterrupt" THEN "stopped" ELSE "crashed"

\* Lines 243-248: where run() continues after an exception raised inside the
\* loop body. Exception and its subclasses are logged and the loop goes on;
\* KeyboardInterrupt reaches the outer handler, which stops the agent.
run_except(exception) == IF exception = "KeyboardInterrupt" THEN "stopped" ELSE "head"

\* The loop record after run() has handled `exception`.
Caught(exception) ==
    [loop EXCEPT !.pc = run_except(exception), !.caught = (exception # "KeyboardInterrupt") \/ @,
                 !.interrupted = (exception = "KeyboardInterrupt") \/ @]

\* ------------------------------------------------- orm/base/session.py

\* The threads that call get_session.
Threads == 1..MaxThreads

\* _ENGINE, _MAKER: 0 for None, else the number of the create_engine /
\* sessionmaker call that made the object. _LOCK: 0 when free, else the thread
\* holding it. engines, makers: the calls of create_engine and of sessionmaker
\* so far. pc: where each thread is in get_session. bound: the sessionmaker the
\* session of each thread's last call is bound to (0: no call returned yet).
NoOrm ==
    [ENGINE |-> 0, MAKER |-> 0, LOCK |-> 0, engines |-> 0, makers |-> 0,
     pc |-> [th \in Threads |-> "idle"], bound |-> [th \in Threads |-> 0]]

\* An exception: its class and the fragments its message contains
\* (exception.args[0].find(code) # -1 is membership of code).
Error(type, text) == [type |-> type, text |-> text]

NoError == Error("none", {})

\* Lines 221-227: conn_err_codes of the OperationalError branch.
OperationalCodes == {"2002", "2003", "2006", "ORA-00028", "ORA-01012", "ORA-03113", "ORA-03114", "ORA-03135", "ORA-25408"}

\* Lines 232-233: conn_err_codes of the DatabaseException branch.
DatabaseExceptionCodes == {"server closed the connection unexpectedly", "closed the connection"}

\* What the wrapped function, or session.commit(), can raise: connection losses
\* of MySQL, Oracle and PostgreSQL, other database errors, a pool timeout, a
\* DatabaseException raised by the function itself (messages.py, lines 44-49)
\* and an error that has nothing to do with the database.
RaisedErrors ==
    {Error("OperationalError", {"2006"}), Error("OperationalError", {"ORA-03113"}),
     Error("OperationalError", DatabaseExceptionCodes), Error("OperationalError", {}),
     Error("DatabaseError", {}), Error("TimeoutError", {}),
     Error("DatabaseException", {}), Error("TypeError", {})}

\* sqlalchemy.exc: OperationalError is a DatabaseError, TimeoutError is not.
IsDatabaseError(error) == error.type \in {"DatabaseError", "OperationalError"}

\* Lines 217-237.
retry_if_db_connection_error(exception) ==
    \/ exception.type = "OperationalError" /\ \E err_code \in OperationalCodes : err_code \in exception.text
    \/ exception.type = "DatabaseException" /\ \E err_code \in DatabaseExceptionCodes : err_code \in exception.text

\* Lines 349-359 (265-273 in read_session): TimeoutError and DatabaseError
\* leave as DatabaseException(str(error)), anything else as it is.
Converted(error) ==
    IF error.type = "TimeoutError" \/ IsDatabaseError(error) THEN Error("DatabaseException", error.text) ELSE error

\* One attempt that called nothing and raised `error`.
NoAttempt(error) ==
    [sessions |-> 0, invoked |-> 0, commit_calls |-> 0, commits |-> 0, rollbacks |-> 0, removes |-> 0,
     raw |-> error, raised |-> error]

\* The except clauses without session.rollback().
new_funct_NoRollback(decorator, owns, generator, f, c) ==
    IF decorator = "read_session" /\ generator THEN NoAttempt(Error("IDDSException", {}))
    ELSE IF ~owns THEN [NoAttempt(f) EXCEPT !.invoked = 1]
    ELSE LET commit_called == decorator = "transactional_session" /\ f = NoError
             error == IF f # NoError THEN f ELSE IF commit_called THEN c ELSE NoError
         IN [sessions |-> 1, invoked |-> 1,
             commit_calls |-> IF commit_called THEN 1 ELSE 0,
             commits |-> IF commit_called /\ c = NoError THEN 1 ELSE 0,
             rollbacks |-> 0,
             removes |-> IF decorator = "read_session" /\ error = NoError THEN 2 ELSE 1,
             raw |-> error, raised |-> Converted(error)]

\* new_funct of transactional_session (lines 342-364) and of read_session
\* (lines 253-279): one attempt, in which the wrapped function ends with f and,
\* if it is reached, session.commit() ends with c. The caller owns the session
\* when it passes none; read_session refuses a generator function (255-256),
\* removes the session on line 263 and again on line 275, and never commits.
new_funct(decorator, owns, generator, f, c) ==
    IF decorator = "read_session" /\ generator THEN NoAttempt(Error("IDDSException", {}))
    ELSE IF ~owns THEN [NoAttempt(f) EXCEPT !.invoked = 1]
    ELSE LET commit_called == decorator = "transactional_session" /\ f = NoError
             error == IF f # NoError THEN f ELSE IF commit_called THEN c ELSE NoError
         IN [sessions |-> 1, invoked |-> 1,
             commit_calls |-> IF commit_called THEN 1 ELSE 0,
             commits |-> IF commit_called /\ c = NoError THEN 1 ELSE 0,
             rollbacks |-> IF error # NoError THEN 1 ELSE 0,
             removes |-> IF decorator = "read_session" /\ error = NoError THEN 2 ELSE 1,
             raw |-> error, raised |-> Converted(error)]

\* A call of a decorated function: attempts made, the totals over them, the
\* errors the function or the commit raised in each failed attempt, and how the
\* call ended ("return" or the class of the exception that left it).
Call(decorator, owns, generator) ==
    [decorator |-> decorator, owns |-> owns, generator |-> generator, pc |-> "call", attempts |-> 0,
     sessions |-> 0, invoked |-> 0, commit_calls |-> 0, commits |-> 0, rollbacks |-> 0, removes |-> 0,
     raw |-> <<>>, outcome |-> "none"]

NoSessionCall == [Call("none", FALSE, FALSE) EXCEPT !.pc = "idle"]

\* session.py is not in use.
SessionIdle ==
    /\ orm = NoOrm
    /\ call = NoSessionCall

\* -------------------------------------------------------------- operations

\* The Transform row as get_transforms_by_status hands it to a unit of work.
Fetched(t) == transforms[t]

\* A direct call of Transformer.check_output_contents on the transform's
\* collections, partitioned by relation type as on lines 184-191.
CheckOutputContents(t) ==
    LET rows == RowsOf(collections, t)
        r == check_output_contents(Fetched(t), CollectionsOf(rows, "Input"), CollectionsOf(rows, "Output"),
                                   CollectionsOf(rows, "Log"), contents, keyForm, keyReversed)
    IN /\ last' = [r EXCEPT !.fetched = rows]
       /\ collections' = ApplyCollectionWrites(collections, r.writes)
       /\ UNCHANGED <<transforms, contents, keyForm, keyReversed, hasUpdated1, collsShape, agentVars, sessionVars>>

\* A direct call of Transformer.fill_new_output_contents.
FillNewOutputContents(t) ==
    LET rows == RowsOf(collections, t)
        r == fill_new_output_contents(Fetched(t), CollectionsOf(rows, "Input"), CollectionsOf(rows, "Output"),
                                      CollectionsOf(rows, "Log"))
    IN /\ last' = [r EXCEPT !.fetched = rows]
       /\ collections' = ApplyCollectionWrites(collections, r.writes)
       /\ UNCHANGED <<transforms, contents, keyForm, keyReversed, hasUpdated1, collsShape, agentVars, sessionVars>>

\* A call of Transformer.fill_new_output_contents in which a gateway call
\* raises: the calls made before it (lines 137, 144, 146) are kept, being one
\* transaction each, and the rest are not made.
FillNewOutputContentsFails(t) ==
    LET rows == RowsOf(collections, t)
        r == fill_new_output_contents(Fetched(t), CollectionsOf(rows, "Input"), CollectionsOf(rows, "Output"),
                                      CollectionsOf(rows, "Log"))
    IN /\ r.writes # <<>>
       /\ \E made \in 1..(Len(r.writes) - 1) :
             /\ last' = [r EXCEPT !.fetched = rows, !.outcome = "DatabaseException", !.writes = SubSeq(r.writes, 1, made)]
             /\ collections' = ApplyCollectionWrites(collections, SubSeq(r.writes, 1, made))
       /\ UNCHANGED <<transforms, contents, keyForm, keyReversed, hasUpdated1, collsShape, agentVars, sessionVars>>

\* A worker runs process_monitor_transform on a transform that
\* get_monitor_transforms selected (lines 112-113: status Transforming).
ProcessMonitorTransform(t) ==
    /\ transforms[t].status = "Transforming"
    /\ LET r == process_monitor_transform(Fetched(t), collections, contents, keyForm, keyReversed,
                                          hasUpdated1, collsShape)
       IN /\ last' = r
          /\ collections' = ApplyCollectionWrites(collections, r.writes)
    /\ UNCHANGED <<transforms, contents, keyForm, keyReversed, hasUpdated1, collsShape, agentVars, sessionVars>>

\* A worker runs process_new_transform on a transform that get_new_transforms
\* selected (lines 48-49: status Ready).
ProcessNewTransform(t) ==
    /\ transforms[t].status = "Ready"
    /\ LET r == process_new_transform(Fetched(t), collections, collsShape)
       IN /\ last' = r
          /\ collections' = ApplyCollectionWrites(collections, r.writes)
    /\ UNCHANGED <<transforms, contents, keyForm, keyReversed, hasUpdated1, collsShape, agentVars, sessionVars>>

\* ------------------------------------------------- the aggregator, called alone

\* A transform being monitored, with up to MaxColls collections of each relation
\* type and any contents in its first Output collection.
InitAggregator ==
    /\ \E status \in {"Transforming", "SubFinished"} :
          transforms = [t \in TransformIds |-> Transform(t, 1, status, FALSE)]
    /\ \E nin \in 0..MaxColls, nout \in 0..MaxColls, nlog \in 0..MaxColls :
          collections = UNION {
              CollectionRows(t, "Input", nin, [k \in 1..nin |-> <<"Open", "open">>])
                \cup CollectionRows(t, "Output", nout, [k \in 1..nout |-> <<"Updated", "open">>])
                \cup CollectionRows(t, "Log", nlog, [k \in 1..nlog |-> <<"Open", "open">>])
              : t \in TransformIds}
    /\ \E counts \in [ContentStatus -> 0..MaxCount] :
          contents = [c \in CollIds |-> IF c = CollId("Output", 1) THEN counts ELSE NoContents]
    /\ keyForm \in KeyForms
    /\ keyReversed \in BOOLEAN
    /\ hasUpdated1 = FALSE
    /\ collsShape = "list"
    /\ last = NoCall
    /\ AgentIdle
    /\ SessionIdle

NextAggregator == \E t \in TransformIds : CheckOutputContents(t)

SpecAggregator == InitAggregator /\ [][NextAggregator]_vars

\* ------------------------------------------------------- the units of work

\* The statuses external producers and this agent leave on an Input and on an
\* Output collection of a Ready or Transforming transform.
InputRows == {"Open", "Update", "Updated"} \X {"open", "closed"}

OutputRows == {"Open", "Updated"} \X {"open"}

\* The contents of the Output collection: all Available, or none yet processed.
InitialCounts == {[NoContents EXCEPT !["Available"] = 1], [NoContents EXCEPT !["New"] = 1]}

\* The contents of the Input collection.
InputCounts == [NoContents EXCEPT !["New"] = 1, !["Failed"] = 1, !["Available"] = 1]

Init ==
    /\ collsShape \in CollectionShapes
    /\ \E status \in {"Ready", "Transforming"}, request_id \in RequestIds, changed \in BOOLEAN :
          transforms = [t \in TransformIds |-> Transform(t, request_id, status, changed)]
    /\ \E nin \in 0..MaxColls, nout \in 0..MaxColls, nlog \in 0..MaxColls :
       \E inrow \in [1..nin -> InputRows], outrow \in [1..nout -> OutputRows] :
          collections = UNION {
              CollectionRows(t, "Input", nin, inrow)
                \cup CollectionRows(t, "Output", nout, outrow)
                \cup CollectionRows(t, "Log", nlog, [k \in 1..nlog |-> <<"Open", "open">>])
              : t \in TransformIds}
    /\ \E counts \in InitialCounts :
          contents = [c \in CollIds |-> IF c = CollId("Output", 1) THEN counts
                                        ELSE IF c = CollId("Input", 1) THEN InputCounts ELSE NoContents]
    /\ keyForm = "enum"
    /\ keyReversed = FALSE
    /\ hasUpdated1 \in BOOLEAN
    /\ last = NoCall
    /\ AgentIdle
    /\ SessionIdle

Next ==
    \E t \in TransformIds :
        \/ ProcessNewTransform(t)
        \/ ProcessMonitorTransform(t)
        \/ FillNewOutputContents(t)

Spec == Init /\ [][Next]_vars

\* fill_new_output_contents called alone, its gateway calls failing or not.
NextFill ==
    \E t \in TransformIds :
        \/ FillNewOutputContents(t)
        \/ FillNewOutputContentsFails(t)

SpecFill == Init /\ [][NextFill]_vars

\* ------------------------------------------------------- the agent's steps

catalogVars == <<collections, contents, keyForm, keyReversed, hasUpdated1, collsShape>>

\* The transform a unit hands back: the fetched row, with the status and the
\* statistics the aggregator set when it returned the transform.
ReturnedTransform(transform, r) ==
    IF r.ret = "transform"
    THEN [transform EXCEPT !.status = r.status, !.transform_metadata.status_statistics = r.status_statistics]
    ELSE transform

\* The units of transform t that were submitted and whose result has not been
\* taken from its output queue.
InFlight(t, func, queue) ==
    Cardinality({i \in 1..Len(tasks) : tasks[i].func = func /\ tasks[i].transform.transform_id = t})
      + Cardinality({i \in 1..Len(queue) : queue[i].transform.transform_id = t})

\* Line 239: the loop condition, tested once before each iteration.
LoopTest ==
    /\ loop.pc = "head"
    /\ LoopContinues(graceful_stop) => loop.iterations < MaxIterations
    /\ loop' = IF LoopContinues(graceful_stop)
               THEN [loop EXCEPT !.pc = "finish_new", !.iterations = @ + 1, !.begunAfterStop = @ \/ graceful_stop]
               ELSE [loop EXCEPT !.pc = "stopped"]
    /\ UNCHANGED <<transforms, catalogVars, last, tasks, new_output_queue, monitor_output_queue, graceful_stop, build, sessionVars, drain, recent, ledger>>

\* finish_new_transforms, lines 93-106: one turn of its while loop.
FinishNewTransforms ==
    /\ loop.pc = "finish_new"
    /\ \E failAt \in 0..Len(FinishNewCalls) :
          IF ~build.hasOutputQueues
          THEN /\ loop' = Caught("AttributeError")
               /\ UNCHANGED <<transforms, new_output_queue, drain, recent, ledger>>
          ELSE IF new_output_queue = <<>>
          THEN /\ loop' = [loop EXCEPT !.pc = "finish_monitor"]
               /\ UNCHANGED <<transforms, new_output_queue, drain, recent, ledger>>
          ELSE LET item == Head(new_output_queue)
                   t == item.transform.transform_id
                   f == finish_new_transform(item, build.finishBinds, failAt)
                   updated == InList("update_transform", f.writes)
               IN /\ new_output_queue' = Tail(new_output_queue)
                  /\ transforms' = IF updated THEN update_transform(transforms, t, {"status"}, [status |-> "Transforming"])
                                   ELSE transforms
                  /\ recent' = IF updated THEN recent \cup {t} ELSE recent
                  /\ ledger' = [ledger EXCEPT ![t].new_results = @ + 1,
                                              ![t].output = IF InList("add_output_collection", f.writes) THEN @ + 1 ELSE @,
                                              ![t].log = IF InList("add_log_collection", f.writes) THEN @ + 1 ELSE @,
                                              ![t].new = IF updated THEN @ + 1 ELSE @]
                  /\ drain' = [queue |-> "new", item |-> item, outcome |-> f.outcome, writes |-> f.writes, before |-> transforms]
                  /\ UNCHANGED loop
    /\ UNCHANGED <<catalogVars, last, tasks, monitor_output_queue, graceful_stop, build, sessionVars>>

\* finish_monitor_transforms, lines 201-208: one turn of its while loop. An
\* exception leaves the method and prepare_finish_tasks and reaches run().
FinishMonitorTransforms ==
    /\ loop.pc = "finish_monitor"
    /\ \E failed \in BOOLEAN :
          IF monitor_output_queue = <<>>
          THEN /\ loop' = [loop EXCEPT !.pc = "poll_new"]
               /\ UNCHANGED <<transforms, monitor_output_queue, drain, recent, ledger>>
          ELSE LET item == Head(monitor_output_queue)
                   t == item.transform.transform_id
                   f == finish_monitor_transform(item, failed)
                   applied == f.outcome = "applied"
               IN /\ monitor_output_queue' = Tail(monitor_output_queue)
                  /\ transforms' = IF applied THEN update_transform(transforms, t, f.parameter, item.transform)
                                   ELSE transforms
                  /\ recent' = IF applied THEN recent \cup {t} ELSE recent
                  /\ ledger' = [ledger EXCEPT ![t].monitor_results = @ + 1,
                                              ![t].monitor = IF applied THEN @ + 1 ELSE @]
                  /\ drain' = [queue |-> "monitor", item |-> item, outcome |-> f.outcome, writes |-> <<>>, before |-> transforms]
                  /\ loop' = IF applied THEN loop ELSE Caught(f.outcome)
    /\ UNCHANGED <<catalogVars, last, tasks, new_output_queue, graceful_stop, build, sessionVars>>

\* prepare_finish_tasks, lines 219-221: poll the Ready transforms and submit a
\* unit for each. A failure of the gateway reaches run().
GetNewTransforms ==
    /\ loop.pc = "poll_new"
    /\ \E failed \in BOOLEAN :
          IF failed
          THEN loop' = Caught("DatabaseException") /\ UNCHANGED tasks
          ELSE /\ loop' = [loop EXCEPT !.pc = "poll_monitor"]
               /\ tasks' = submit_task(tasks, "process_new_transform", transforms, get_new_transforms(transforms))
    /\ UNCHANGED <<transforms, catalogVars, last, new_output_queue, monitor_output_queue, graceful_stop, build, sessionVars, drain, recent, ledger>>

\* prepare_finish_tasks, lines 223-225, then sleep_for_tasks (line 242): poll
\* the Transforming transforms and submit a unit for each.
GetMonitorTransforms ==
    /\ loop.pc = "poll_monitor"
    /\ \E failed \in BOOLEAN :
          IF failed
          THEN loop' = Caught("DatabaseException") /\ UNCHANGED <<tasks, ledger>>
          ELSE LET polled == get_monitor_transforms(transforms, recent)
               IN /\ loop' = [loop EXCEPT !.pc = "head"]
                  /\ tasks' = submit_task(tasks, "process_monitor_transform", transforms, polled)
                  /\ ledger' = [t \in DOMAIN ledger |->
                                  IF t \in polled
                                  THEN [ledger[t] EXCEPT !.monitor_units = @ + 1,
                                                         !.raced = @ \/ InFlight(t, "process_monitor_transform", monitor_output_queue) > 0]
                                  ELSE ledger[t]]
    /\ UNCHANGED <<transforms, catalogVars, last, new_output_queue, monitor_output_queue, graceful_stop, build, sessionVars, drain, recent>>

\* run_tasks: a worker takes the oldest task, runs the unit and puts what it
\* returned on the unit's output queue; a unit that raised puts nothing.
RunTask ==
    /\ tasks # <<>>
    /\ LET task == Head(tasks)
           new == task.func = "process_new_transform"
           r == IF new THEN process_new_transform(task.transform, collections, collsShape)
                ELSE process_monitor_transform(task.transform, collections, contents, keyForm, keyReversed, hasUpdated1, collsShape)
           item == ResultItem(r.ret, ReturnedTransform(task.transform, r))
       IN /\ last' = r
          /\ collections' = ApplyCollectionWrites(collections, r.writes)
          /\ tasks' = Tail(tasks)
          /\ new_output_queue' = IF new /\ r.outcome = "return" THEN Append(new_output_queue, item) ELSE new_output_queue
          /\ monitor_output_queue' = IF ~new /\ r.outcome = "return" THEN Append(monitor_output_queue, item) ELSE monitor_output_queue
    /\ UNCHANGED <<transforms, contents, keyForm, keyReversed, hasUpdated1, collsShape, loop, graceful_stop, build, sessionVars, drain, recent, ledger>>

\* Someone sets the stop signal.
SetStop ==
    /\ ~graceful_stop
    /\ graceful_stop' = TRUE
    /\ UNCHANGED <<transforms, catalogVars, last, loop, tasks, new_output_queue, monitor_output_queue, build, sessionVars, drain, recent, ledger>>

\* Lines 247-248: KeyboardInterrupt in the main thread; stop() sets the signal.
KeyboardInterrupt ==
    /\ loop.pc \in {"head", "finish_new", "finish_monitor", "poll_new", "poll_monitor"}
    /\ loop' = Caught("KeyboardInterrupt")
    /\ graceful_stop' = TRUE
    /\ UNCHANGED <<transforms, catalogVars, last, tasks, new_output_queue, monitor_output_queue, build, sessionVars, drain, recent, ledger>>

\* The monitor period (line 113) of a transform elapses.
PeriodElapses(t) ==
    /\ t \in recent
    /\ recent' = recent \ {t}
    /\ UNCHANGED <<transforms, catalogVars, last, loop, tasks, new_output_queue, monitor_output_queue, graceful_stop, build, sessionVars, drain, ledger>>

\* ------------------------------------------------------- the whole agent

\* One collection of each relation type for each transform; the Output
\* collection is Updated, as fill_new_output_contents leaves it (line 146).
AgentCollections ==
    {Collection(CollId(relation_type, t), t, relation_type, IF relation_type = "Output" THEN "Updated" ELSE "Open", "open") :
        t \in AgentTransformIds, relation_type \in CollectionRelationType}

\* The contents of the Output collection of a transform being monitored: all
\* Available for a Transforming one; for a SubFinished one, new content has
\* arrived beside the Available and the FinalFailed.
MonitoredCounts(status) ==
    IF status = "SubFinished" THEN [NoContents EXCEPT !["Available"] = 1, !["FinalFailed"] = 1, !["New"] = 1]
    ELSE [NoContents EXCEPT !["Available"] = 1]

\* A Ready transform and one that is Transforming or SubFinished, and the
\* contents of the Output collection of each.
InitLoop ==
    /\ collsShape \in CollectionShapes
    /\ \E request_id \in RequestIds, changed \in BOOLEAN, monitored \in {"Transforming", "SubFinished"} :
          /\ transforms = [t \in AgentTransformIds |->
                             Transform(t, request_id, IF t \in TransformIds THEN "Ready" ELSE monitored, changed)]
          /\ contents = [c \in CollIds |-> IF c \in {CollId("Output", t) : t \in AgentTransformIds}
                                           THEN MonitoredCounts(monitored) ELSE NoContents]
    /\ collections = AgentCollections
    /\ keyForm = "enum"
    /\ keyReversed = FALSE
    /\ hasUpdated1 \in BOOLEAN
    /\ last = NoCall
    /\ loop = [LoopIdle EXCEPT !.pc = "head"]
    /\ tasks = <<>>
    /\ new_output_queue = <<>>
    /\ monitor_output_queue = <<>>
    /\ graceful_stop = FALSE
    /\ build \in Builds
    /\ drain = NoDrain
    /\ recent \in SUBSET (AgentTransformIds \ TransformIds)
    /\ ledger = [t \in AgentTransformIds |-> NoLedger]
    /\ SessionIdle

NextLoop ==
    \/ LoopTest
    \/ FinishNewTransforms
    \/ FinishMonitorTransforms
    \/ GetNewTransforms
    \/ GetMonitorTransforms
    \/ RunTask
    \/ SetStop
    \/ KeyboardInterrupt
    \/ \E t \in AgentTransformIds : PeriodElapses(t)

SpecLoop == InitLoop /\ [][NextLoop]_vars

\* The steps of the main thread: run() and what it calls.
MainThread == LoopTest \/ FinishNewTransforms \/ FinishMonitorTransforms \/ GetNewTransforms \/ GetMonitorTransforms

\* The main thread keeps running: each call it makes returns or raises, and
\* sleep_for_tasks returns.
FairSpecLoop == SpecLoop /\ WF_vars(MainThread)

\* ------------------------------------------- the finish methods, called alone

\* The sequences over `items` of at most n elements.
SeqsUpTo(items, n) == UNION {[1..k -> items] : k \in 0..n}

\* The rows of InitFinish: a Ready and a Transforming transform.
FinishRows == [t \in AgentTransformIds |-> Transform(t, 1, IF t \in TransformIds THEN "Ready" ELSE "Transforming", TRUE)]

\* What process_new_transform can hand back for a Ready transform: the empty
\* mapping, or the mapping generate_transform_outputs builds on lines 72-73.
NewResults == {ResultItem(ret, FinishRows[t]) : ret \in {"empty", "result"}, t \in TransformIds}

\* A transform as check_output_contents hands it back: the row as fetched
\* earlier (its request_id may differ from the row's by now), with the status
\* decided and the statistics attached.
MonitoredTransform(t, request_id, status) ==
    [Transform(t, request_id, status, TRUE) EXCEPT !.transform_metadata.status_statistics = [set |-> TRUE, val |-> <<>>]]

\* What process_monitor_transform can hand back for a transform that was
\* Transforming when it was polled: None, or a transform.
MonitorResults ==
    {ResultItem("None", FinishRows[t]) : t \in AgentTransformIds \ TransformIds}
      \cup {ResultItem("transform", MonitoredTransform(t, request_id, status)) :
              t \in AgentTransformIds \ TransformIds, request_id \in RequestIds, status \in {"Finished", "Transforming"}}

\* prepare_finish_tasks is about to drain the two output queues, which hold any
\* results of earlier units.
InitFinish ==
    /\ transforms = FinishRows
    /\ collections = AgentCollections
    /\ contents = [c \in CollIds |-> NoContents]
    /\ keyForm = "enum"
    /\ keyReversed = FALSE
    /\ hasUpdated1 = FALSE
    /\ collsShape = "list"
    /\ last = NoCall
    /\ loop = [LoopIdle EXCEPT !.pc = "finish_new", !.iterations = 1]
    /\ tasks = <<>>
    /\ new_output_queue \in SeqsUpTo(NewResults, MaxQueue)
    /\ monitor_output_queue \in SeqsUpTo(MonitorResults, MaxQueue)
    /\ graceful_stop = FALSE
    /\ \E binds \in BOOLEAN : build = [hasOutputQueues |-> TRUE, finishBinds |-> binds]
    /\ drain = NoDrain
    /\ recent = {}
    /\ ledger = [t \in AgentTransformIds |-> NoLedger]
    /\ SessionIdle

NextFinish == FinishNewTransforms \/ FinishMonitorTransforms

SpecFinish == InitFinish /\ [][NextFinish]_vars

\* --------------------------------------------- a call of a decorated function

\* @retry(retry_on_exception=retry_if_db_connection_error,
\* stop_max_attempt_number=2, wrap_exception=False) around new_funct: one
\* attempt, then either another one or the end of the call.
NewFunct ==
    /\ call.pc = "call"
    /\ \E f \in RaisedErrors \cup {NoError}, c \in RaisedErrors \cup {NoError} :
          LET a == new_funct(call.decorator, call.owns, call.generator, f, c)
              retry == /\ a.raised # NoError
                       /\ retry_if_db_connection_error(a.raised)
                       /\ call.attempts + 1 < stop_max_attempt_number
          IN call' = [call EXCEPT !.attempts = @ + 1,
                                  !.sessions = @ + a.sessions,
                                  !.invoked = @ + a.invoked,
                                  !.commit_calls = @ + a.commit_calls,
                                  !.commits = @ + a.commits,
                                  !.rollbacks = @ + a.rollbacks,
                                  !.removes = @ + a.removes,
                                  !.raw = IF a.raw = NoError THEN @ ELSE Append(@, a.raw),
                                  !.pc = IF retry THEN "call" ELSE "done",
                                  !.outcome = IF retry THEN "none" ELSE IF a.raised = NoError THEN "return" ELSE a.raised.type]
    /\ UNCHANGED <<transforms, catalogVars, last, agentVars, orm>>

\* A call of a function decorated with transactional_session or read_session,
\* with or without a session passed by the caller.
InitSessionCall ==
    /\ transforms = FinishRows
    /\ collections = AgentCollections
    /\ contents = [c \in CollIds |-> NoContents]
    /\ keyForm = "enum"
    /\ keyReversed = FALSE
    /\ hasUpdated1 = FALSE
    /\ collsShape = "list"
    /\ last = NoCall
    /\ AgentIdle
    /\ orm = NoOrm
    /\ \E decorator \in {"transactional_session", "read_session"}, owns \in BOOLEAN, generator \in BOOLEAN :
          call = Call(decorator, owns, generator /\ decorator = "read_session")

NextSessionCall == NewFunct

SpecSessionCall == InitSessionCall /\ [][NextSessionCall]_vars

\* ------------------------------------------------------------- get_session

\* Line 133: if not _ENGINE.
get_engine_creates(engine) == engine = 0

\* get_maker without its test.
get_maker_creates_Always(maker) == TRUE

\* Line 194: if not _MAKER.
get_maker_creates(maker) == maker = 0

\* The thread moves to `pc`.
At(th, pc) == [orm EXCEPT !.pc[th] = pc]

\* Line 204: the test of _MAKER outside the lock.
GetSessionTest(th) ==
    /\ orm.pc[th] = "idle"
    /\ orm' = At(th, IF orm.MAKER = 0 THEN "acquire" ELSE "scoped")
    /\ UNCHANGED <<transforms, catalogVars, last, agentVars, call>>

\* Line 205: _LOCK.acquire().
LockAcquire(th) ==
    /\ orm.pc[th] = "acquire"
    /\ orm.LOCK = 0
    /\ orm' = [At(th, "get_engine") EXCEPT !.LOCK = th]
    /\ UNCHANGED <<transforms, catalogVars, last, agentVars, call>>

\* Line 207, get_engine (lines 128-158): the test and create_engine.
GetEngine(th) ==
    /\ orm.pc[th] = "get_engine"
    /\ orm' = IF get_engine_creates(orm.ENGINE)
              THEN [At(th, "get_maker") EXCEPT !.engines = @ + 1, !.ENGINE = orm.engines + 1]
              ELSE At(th, "get_maker")
    /\ UNCHANGED <<transforms, catalogVars, last, agentVars, call>>

\* Line 208, get_maker (lines 187-196): the test and sessionmaker.
GetMaker(th) ==
    /\ orm.pc[th] = "get_maker"
    /\ orm' = IF get_maker_creates(orm.MAKER)
              THEN [At(th, "release") EXCEPT !.makers = @ + 1, !.MAKER = orm.makers + 1]
              ELSE At(th, "release")
    /\ UNCHANGED <<transforms, catalogVars, last, agentVars, call>>

\* Line 210: _LOCK.release().
LockRelease(th) ==
    /\ orm.pc[th] = "release"
    /\ orm' = [At(th, "scoped") EXCEPT !.LOCK = 0]
    /\ UNCHANGED <<transforms, catalogVars, last, agentVars, call>>

\* Lines 211-214: scoped_session(_MAKER) is returned.
ScopedSession(th) ==
    /\ orm.pc[th] = "scoped"
    /\ orm' = [At(th, "idle") EXCEPT !.bound[th] = orm.MAKER]
    /\ UNCHANGED <<transforms, catalogVars, last, agentVars, call>>

\* The process starts with no engine and no sessionmaker.
InitGetSession ==
    /\ transforms = FinishRows
    /\ collections = AgentCollections
    /\ contents = [c \in CollIds |-> NoContents]
    /\ keyForm = "enum"
    /\ keyReversed = FALSE
    /\ hasUpdated1 = FALSE
    /\ collsShape = "list"
    /\ last = NoCall
    /\ AgentIdle
    /\ SessionIdle

NextGetSession ==
    \E th \in Threads :
        \/ GetSessionTest(th)
        \/ LockAcquire(th)
        \/ GetEngine(th)
        \/ GetMaker(th)
        \/ LockRelease(th)
        \/ ScopedSession(th)

SpecGetSession == InitGetSession /\ [][NextGetSession]_vars

\* ------------------------------------------------------------------ claims

\* The rows of one relation type among `rows`.
OfType(rows, relation_type) == {c \in rows : c.relation_type = relation_type}

\* The transform owns exactly one Output collection and at most one Input and
\* one Log collection.
SingleCollections(t) ==
    /\ Cardinality(OfType(RowsOf(collections, t), "Output")) = 1
    /\ Cardinality(OfType(RowsOf(collections, t), "Input")) <= 1
    /\ Cardinality(OfType(RowsOf(collections, t), "Log")) <= 1

\* The transform's Output collection, as persisted now.
OutputCollection(t) == CHOOSE c \in OfType(RowsOf(collections, t), "Output") : TRUE

\* The set of distinct content statuses of the transform's Output collection.
DistinctStatuses(t) == {s \in ContentStatus : contents[OutputCollection(t).coll_id][s] > 0}

\* The last call was check_output_contents on transform t and its collections.
Aggregated(t) ==
    /\ last.op = "check_output_contents"
    /\ last.transform_id = t
    /\ SingleCollections(t)

\* The last call made no update_collection call.
NoCollectionWritten == \A i \in 1..Len(last.writes) : last.writes[i].call # "update_collection"

\* C1: when the distinct content statuses of the Output collection are exactly
\* {Available}, whatever the counts, check_output_contents returns the transform
\* with status Finished and the Output collection's coll_status is Closed.
C1_OnlyAvailableFinishes ==
    \A t \in TransformIds :
        (Aggregated(t) /\ DistinctStatuses(t) = {"Available"})
        => /\ last.outcome = "return"
           /\ last.ret = "transform"
           /\ last.status = "Finished"
           /\ OutputCollection(t).coll_status = "Closed"

C1_Witness ==
    \E t \in TransformIds :
        /\ Aggregated(t)
        /\ DistinctStatuses(t) = {"Available"}
        /\ contents[OutputCollection(t).coll_id]["Available"] > 1
        /\ keyForm = "value"
        /\ last.status = "Finished"
        /\ OutputCollection(t).coll_status = "Closed"

\* C2: when the distinct content statuses of the Output collection are exactly
\* {FinalFailed}, check_output_contents returns the transform with status Failed
\* and the Output collection's coll_status is Failed.
C2_OnlyFinalFailedFails ==
    \A t \in TransformIds :
        (Aggregated(t) /\ DistinctStatuses(t) = {"FinalFailed"})
        => /\ last.outcome = "return"
           /\ last.ret = "transform"
           /\ last.status = "Failed"
           /\ OutputCollection(t).coll_status = "Failed"

C2_Witness ==
    \E t \in TransformIds :
        /\ Aggregated(t)
        /\ DistinctStatuses(t) = {"FinalFailed"}
        /\ keyForm = "value"
        /\ last.prior = "Transforming"
        /\ last.status = "Failed"
        /\ OutputCollection(t).coll_status = "Failed"

\* C3: when the distinct content statuses of the Output collection are exactly
\* {Available, FinalFailed}, in either key order, check_output_contents returns
\* the transform with status SubFinished and the Output collection's coll_status
\* is SubClosed.
C3_AvailableAndFinalFailedSubFinishes ==
    \A t \in TransformIds :
        (Aggregated(t) /\ DistinctStatuses(t) = {"Available", "FinalFailed"})
        => /\ last.outcome = "return"
           /\ last.ret = "transform"
           /\ last.status = "SubFinished"
           /\ OutputCollection(t).coll_status = "SubClosed"

C3_Witness ==
    \E t \in TransformIds :
        /\ Aggregated(t)
        /\ DistinctStatuses(t) = {"Available", "FinalFailed"}
        /\ keyReversed
        /\ KeysOf(last.statistics) = <<EnumKey("FinalFailed"), EnumKey("Available")>>
        /\ last.status = "SubFinished"
        /\ OutputCollection(t).coll_status = "SubClosed"

\* C4: when the distinct content statuses contain New or Failed, whatever else is
\* present, check_output_contents returns the transform with status Transforming,
\* calls generate_processing exactly once and does not write the Output
\* collection's coll_status.
C4_NewOrFailedKeepsTransforming ==
    \A t \in TransformIds :
        (Aggregated(t) /\ DistinctStatuses(t) \cap {"New", "Failed"} # {})
        => /\ last.outcome = "return"
           /\ last.ret = "transform"
           /\ last.status = "Transforming"
           /\ Len(last.processings) = 1
           /\ NoCollectionWritten
           /\ OutputCollection(t) \in last.fetched

C4_Witness ==
    \E t \in TransformIds :
        /\ Aggregated(t)
        /\ DistinctStatuses(t) = {"Failed", "Available", "FinalFailed"}
        /\ last.prior = "SubFinished"
        /\ last.status = "Transforming"
        /\ Len(last.processings) = 1

\* The status set matches none of the four rules of the aggregator.
NoRuleApplies(statuses) ==
    /\ statuses # {"Available"}
    /\ statuses # {"FinalFailed"}
    /\ statuses # {"Available", "FinalFailed"}
    /\ statuses \cap {"New", "Failed"} = {}

\* C5: for a status set that matches none of the four rules, the empty one
\* included, check_output_contents leaves the transform's status and the Output
\* collection's coll_status as they were and does not call generate_processing.
C5_OtherCombinationsChangeNothing ==
    \A t \in TransformIds :
        (Aggregated(t) /\ NoRuleApplies(DistinctStatuses(t)))
        => /\ last.outcome = "return"
           /\ last.ret = "transform"
           /\ last.status = last.prior
           /\ last.status = transforms[t].status
           /\ last.writes = <<>>
           /\ last.processings = <<>>
           /\ OutputCollection(t) \in last.fetched

C5_Witness ==
    \E t \in TransformIds :
        /\ Aggregated(t)
        /\ DistinctStatuses(t) = {"Available", "Processing"}
        /\ last.prior = "SubFinished"
        /\ last.status = "SubFinished"
        /\ last.read

\* C6: after every call of check_output_contents, the no-transition branch
\* included, transform_metadata['status_statistics'] of the returned transform is
\* the statistics mapping just read for the Output collection.
C6_StatisticsAlwaysAttached ==
    \A t \in TransformIds :
        Aggregated(t)
        => last.status_statistics =
             [set |-> TRUE,
              val |-> get_content_status_statistics(contents, OutputCollection(t).coll_id, keyForm, keyReversed)]

\* The rules of lines 158-173 whose condition holds of a list of keys.
RulesMatching(content_status_keys) ==
    {rule \in {"Finished", "Failed", "SubFinished", "Transforming"} :
        \/ rule = "Finished" /\ IsOnlyAvailable(content_status_keys)
        \/ rule = "Failed" /\ IsOnlyFinalFailed(content_status_keys)
        \/ rule = "SubFinished" /\ IsAvailableAndFinalFailed(content_status_keys)
        \/ rule = "Transforming" /\ HasNewOrFailed(content_status_keys)}

\* The outcomes the last call shows: a transition with its collection write, a
\* new processing, or nothing at all.
OutcomesShown(t) ==
    LET closed(coll_status) == last.writes = <<UpdateCollectionWrite(OutputCollection(t).coll_id, coll_status)>>
    IN {o \in {"Finished", "Failed", "SubFinished", "Transforming", "no-op"} :
        \/ o = "Finished" /\ last.status = "Finished" /\ closed("Closed") /\ last.processings = <<>>
        \/ o = "Failed" /\ last.status = "Failed" /\ closed("Failed") /\ last.processings = <<>>
        \/ o = "SubFinished" /\ last.status = "SubFinished" /\ closed("SubClosed") /\ last.processings = <<>>
        \/ o = "Transforming" /\ last.status = "Transforming" /\ last.writes = <<>> /\ Len(last.processings) = 1
        \/ o = "no-op" /\ last.status = last.prior /\ last.writes = <<>> /\ last.processings = <<>>}

\* C7: for every non-empty statistics mapping check_output_contents returns, shows
\* exactly one of the outcomes Finished, Failed, SubFinished, Transforming and
\* no-op, and at most one rule's condition holds of the keys it read.
C7_AggregatorTotality ==
    \A t \in TransformIds :
        (Aggregated(t) /\ DistinctStatuses(t) # {})
        => /\ last.outcome = "return"
           /\ last.ret = "transform"
           /\ Cardinality(OutcomesShown(t)) = 1
           /\ Cardinality(RulesMatching(KeysOf(last.statistics))) <= 1
           /\ RulesMatching(KeysOf(last.statistics)) \subseteq OutcomesShown(t)

C7_Witness ==
    \E t \in TransformIds :
        /\ Aggregated(t)
        /\ DistinctStatuses(t) = {"New", "Available"}
        /\ OutcomesShown(t) = {"Transforming"}
        /\ RulesMatching(KeysOf(last.statistics)) = {"Transforming"}

\* The last unit of work ran on transform t with these fetched rows.
UnitRan(op, t) == last.op = op /\ last.transform_id = t

\* C8: for a transform with more than one Input, Output or Log collection, the
\* New-transform path and the Monitor path both fail with a configuration error
\* (IDDSException), whatever the collections' coll_status, and write nothing.
C8_MultipleCollectionsFailFast ==
    \A t \in TransformIds :
        ((UnitRan("process_new_transform", t) \/ UnitRan("process_monitor_transform", t))
           /\ \E relation_type \in CollectionRelationType :
                 Cardinality(OfType(last.fetched, relation_type)) > 1)
        => /\ last.outcome = "IDDSException"
           /\ last.writes = <<>>

\* The unit fetched exactly one Input collection, one Output collection and at
\* most one Log collection.
FetchedSingle ==
    /\ Cardinality(OfType(last.fetched, "Input")) = 1
    /\ Cardinality(OfType(last.fetched, "Output")) = 1
    /\ Cardinality(OfType(last.fetched, "Log")) <= 1

\* C9: when process_monitor_transform runs on a transform whose Input collection
\* has coll_status Updated, add_contents is called, the Input collection's
\* coll_status becomes Closed if its ddm_status is 'closed' and Open otherwise,
\* and the Output collection's coll_status becomes Updated.
C9_InputReconciliation ==
    \A t \in TransformIds :
        (UnitRan("process_monitor_transform", t) /\ FetchedSingle
           /\ \E c \in OfType(last.fetched, "Input") : c.coll_status = "Updated")
        => /\ \E i \in 1..Len(last.writes) : last.writes[i].call = "add_contents"
           /\ \A c \in OfType(RowsOf(collections, t), "Input") :
                 c.coll_status = IF c.coll_metadata.ddm_status = "closed" THEN "Closed" ELSE "Open"
           /\ \A c \in OfType(RowsOf(collections, t), "Output") : c.coll_status = "Updated"

\* C10: when process_monitor_transform runs on a transform whose Output collection
\* has coll_status Updated, it runs check_output_contents on that collection and
\* returns the transform the aggregator returned.
C10_OutputAggregation ==
    \A t \in TransformIds :
        (UnitRan("process_monitor_transform", t) /\ FetchedSingle
           /\ \E c \in OfType(last.fetched, "Output") : c.coll_status = "Updated")
        => /\ last.outcome = "return"
           /\ last.read
           /\ last.ret = "transform"

\* ---------------------------------------------- claims on the New-transform path

\* input_collection_changed of transform t, which no step of the agent writes.
InputCollectionChanged(t) == transforms[t].transform_metadata.input_collection_changed

\* The result finish_new_transforms took last is about transform t.
DrainedNew(t) == drain.queue = "new" /\ drain.item.transform.transform_id = t

\* C11: for a Ready transform that owns collections and whose
\* input_collection_changed is true, process_new_transform returns a non-empty
\* result, and finish_new_transforms, applying the result, persists the Output
\* collection and a Log collection and sets the transform's status to
\* Transforming.
C11_NewTransformPath ==
    \A t \in DOMAIN transforms :
        /\ (UnitRan("process_new_transform", t) /\ last.fetched # {} /\ InputCollectionChanged(t))
           => (last.outcome = "return" /\ last.ret = "result")
        /\ (DrainedNew(t) /\ InputCollectionChanged(t))
           => /\ drain.item.ret = "result"
              /\ drain.outcome = "applied"
              /\ transforms[t].status = "Transforming"
              /\ ledger[t].output >= 1
              /\ ledger[t].log >= 1

\* C12: for a Ready transform whose input_collection_changed is false,
\* process_new_transform returns an empty result, and finish_new_transforms,
\* draining that result, adds no collection and no content and leaves the
\* transform's persisted status Ready.
C12_NewTransformNoOp ==
    \A t \in DOMAIN transforms :
        /\ (UnitRan("process_new_transform", t) /\ last.prior = "Ready" /\ ~InputCollectionChanged(t))
           => (last.outcome = "return" /\ last.ret = "empty" /\ last.writes = <<>>)
        /\ (DrainedNew(t) /\ drain.item.ret = "empty")
           => /\ drain.writes = <<>>
              /\ transforms = drain.before
              /\ drain.before[t].status = "Ready" => transforms[t].status = "Ready"
              /\ ledger[t].output = 0 /\ ledger[t].log = 0 /\ ledger[t].new = 0

\* An empty result of a Ready transform whose input did not change was drained.
C12_Witness ==
    \E t \in DOMAIN transforms :
        /\ DrainedNew(t)
        /\ drain.item.ret = "empty"
        /\ ~InputCollectionChanged(t)
        /\ drain.before[t].status = "Ready"
        /\ transforms[t].status = "Ready"
        /\ UnitRan("process_new_transform", t)

C14_NewTransformIdempotence ==
    \A t \in DOMAIN transforms :
        /\ ledger[t].output <= 1
        /\ ledger[t].log <= 1

\* The path ran twice on a Ready transform whose input changed: two of its
\* results were drained and the row is as it was.
C14_Witness ==
    \E t \in DOMAIN transforms :
        /\ ledger[t].new_results >= 2
        /\ InputCollectionChanged(t)
        /\ transforms[t].status = "Ready"
        /\ DrainedNew(t)
        /\ transforms = drain.before

\* The number of contents of the Input collection with one of `statuses`.
RECURSIVE InputContents(_, _)
InputContents(counts, statuses) ==
    IF statuses = {} THEN 0
    ELSE LET status == CHOOSE x \in statuses : TRUE
         IN counts[status] + InputContents(counts, statuses \ {status})

\* C15: generate_transform_outputs derives exactly one Output content for each
\* Input content whose status is New or Failed, linked to its source, and none
\* for an Input content in another status.
C15_OutputDerivation ==
    \A t \in TransformIds :
        (UnitRan("process_new_transform", t) /\ last.ret # "empty")
        => /\ last.outcome = "return"
           /\ last.ret = "result"
           /\ Len(last.derived) = InputContents(contents[CollId("Input", 1)], {"New", "Failed"})
           /\ \A i \in 1..Len(last.derived) : last.derived[i] \in {"New", "Failed"}

\* ------------------------------------------------- claims on the agent loop

\* The units of transform t in flight, on either path.
UnitsInFlight(t) ==
    InFlight(t, "process_new_transform", new_output_queue) + InFlight(t, "process_monitor_transform", monitor_output_queue)

\* C16: in every state of the agent loop each transform has at most one unit of
\* work in flight (submitted, its result not yet taken and applied).
C16_SingleInFlightUnit == \A t \in DOMAIN transforms : UnitsInFlight(t) <= 1

\* C17: when two monitor passes were in flight together on the same Transforming
\* transform and both have been dealt with, exactly one status transition of
\* the transform has been committed.
C17_ConcurrencyIsolation ==
    \A t \in DOMAIN transforms :
        (ledger[t].raced /\ InFlight(t, "process_monitor_transform", monitor_output_queue) = 0)
        => ledger[t].monitor = 1

\* The result finish_monitor_transforms took last is about transform t.
DrainedMonitor(t) == drain.queue = "monitor" /\ drain.item.transform.transform_id = t

\* C18: finish_monitor_transforms writes to the Transform record of the
\* result's transform_id only status and transform_metadata, with the result's
\* values; every other field of the record and every other record are unchanged.
C18_FinishMonitorWritesTwoFields ==
    \A t \in DOMAIN transforms :
        DrainedMonitor(t)
        => /\ \A u \in DOMAIN transforms \ {t} : transforms[u] = drain.before[u]
           /\ transforms[t].transform_id = drain.before[t].transform_id
           /\ transforms[t].request_id = drain.before[t].request_id
           /\ IF drain.outcome = "applied"
              THEN /\ transforms[t].status = drain.item.transform.status
                   /\ transforms[t].transform_metadata = drain.item.transform.transform_metadata
              ELSE transforms[t] = drain.before[t]

\* A result that differs from the row in status, metadata and request_id was applied.
C18_Witness ==
    \E t \in DOMAIN transforms :
        /\ DrainedMonitor(t)
        /\ drain.outcome = "applied"
        /\ drain.item.transform.request_id # drain.before[t].request_id
        /\ drain.item.transform.status # drain.before[t].status
        /\ transforms[t].status = "Finished"
        /\ transforms[t].transform_metadata # drain.before[t].transform_metadata

\* C19: an exception raised by a unit of work, while applying a result or while
\* polling never ends the loop of run(): the loop ends only when graceful_stop
\* is set, and after catching an exception with the signal clear it is still
\* running.
C19_LoopSurvival ==
    /\ loop.pc # "crashed"
    /\ loop.pc = "stopped" => graceful_stop
    /\ (loop.caught /\ ~graceful_stop) => loop.pc \in {"head", "finish_new", "finish_monitor", "poll_new", "poll_monitor"}

\* run() caught an exception, a unit raised one, and a later iteration
\* submitted units.
C19_Witness ==
    /\ loop.caught
    /\ ~graceful_stop
    /\ last.outcome \notin {"none", "return"}
    /\ loop.pc = "poll_monitor"
    /\ tasks # <<>>

\* C20: the stop signal is tested once per iteration, before it; once it is
\* set no further iteration starts and the loop ends after the current one,
\* without touching a unit that is waiting or running.
C20_GracefulStop ==
    /\ [](~loop.begunAfterStop)
    /\ []((loop.pc = "stopped" /\ ~loop.interrupted) => graceful_stop)
    /\ graceful_stop ~> (loop.pc = "stopped")

\* The loop ended on the stop signal after an iteration, with units still to run.
C20_Witness ==
    /\ loop.pc = "stopped"
    /\ ~loop.interrupted
    /\ graceful_stop
    /\ loop.iterations >= 1
    /\ tasks # <<>>

\* ------------------------------------------------ claims on orm/base/session.py

\* The decorated call has ended.
\* The contents of the Output collection of transform t in the whole agent.
OutputContents(t) == contents[CollId("Output", t)]

\* C21: a monitor cycle that completes selects every SubFinished transform,
\* outside the monitor period, whose Output collection holds New or Failed
\* content, so that the aggregator is run on it again and its status becomes
\* Transforming.
C21_SubFinishedReentry ==
    [][(loop.pc = "poll_monitor" /\ loop'.pc = "head" /\ ~loop'.caught)
         => \A t \in DOMAIN transforms :
               (/\ transforms[t].status = "SubFinished"
                /\ t \notin recent
                /\ OutputContents(t)["New"] + OutputContents(t)["Failed"] > 0)
                 => ledger'[t].monitor_units = ledger[t].monitor_units + 1]_vars

\* The contents of the Output collection of transform t are all Available.
AllAvailable(t) ==
    /\ OutputContents(t)["Available"] > 0
    /\ \A status \in ContentStatus \ {"Available"} : OutputContents(t)[status] = 0

\* C25: a Transforming transform whose single Output collection was Updated and
\* whose Output contents are all Available is Finished once a monitor unit for
\* it was submitted, a worker has run every unit submitted for it and the main
\* thread has drained their results, no call having failed.
C25_EndToEndProgress ==
    \A t \in DOMAIN transforms :
        (/\ AllAvailable(t)
         /\ ledger[t].monitor_units >= 1
         /\ InFlight(t, "process_monitor_transform", monitor_output_queue) = 0
         /\ ~loop.caught /\ ~loop.interrupted)
          => transforms[t].status = "Finished"

\* The Output collections of transform t.
OutputCollectionsOf(t) == {c \in RowsOf(collections, t) : c.relation_type = "Output"}

\* C22: in every persisted state, an Output collection that is Closed belongs to
\* a Finished transform, one that is Failed to a Failed transform, and one that
\* is SubClosed to a SubFinished transform.
C22_StatusDerivability ==
    \A t \in DOMAIN transforms : \A c \in OutputCollectionsOf(t) :
        /\ c.coll_status = "Closed" => transforms[t].status = "Finished"
        /\ c.coll_status = "Failed" => transforms[t].status = "Failed"
        /\ c.coll_status = "SubClosed" => transforms[t].status = "SubFinished"

\* The status changes of the transform lifecycle.
LifecycleEdges ==
    {<<"Ready", "Transforming">>, <<"Transforming", "Finished">>, <<"Transforming", "Failed">>,
     <<"Transforming", "SubFinished">>, <<"SubFinished", "Transforming">>}

C26_DrainIsolation ==
    [][(Len(new_output_queue') < Len(new_output_queue) \/ Len(monitor_output_queue') < Len(monitor_output_queue))
         => loop'.pc = loop.pc]_vars

\* The call of fill_new_output_contents recorded in `c` raised after it had
\* made some of its gateway calls.
FailedPartWay(c) == c.op = "fill_new_output_contents" /\ c.outcome = "DatabaseException" /\ c.writes # <<>>

\* The Collection rows a call of fill_new_output_contents that made all its
\* gateway calls leaves, started on the rows `c` fetched.
FilledRows(c) ==
    LET transform == Transform(c.transform_id, 0, c.prior, FALSE)
        whole == fill_new_output_contents(transform, CollectionsOf(c.fetched, "Input"), CollectionsOf(c.fetched, "Output"),
                                          CollectionsOf(c.fetched, "Log"))
    IN ApplyCollectionWrites(c.fetched, whole.writes)

\* C23: when fill_new_output_contents raised after add_contents and before one
\* of its update_collection calls, the next run on the rows it left calls
\* add_contents no second time and leaves the rows a run that made every call
\* would have left.
C23_CleanRestart ==
    [][(FailedPartWay(last) /\ last'.op = "fill_new_output_contents" /\ last'.outcome = "return"
          /\ last'.transform_id = last.transform_id)
         => /\ \A i \in 1..Len(last'.writes) : last'.writes[i].call # "add_contents"
            /\ RowsOf(collections', last.transform_id) = FilledRows(last)]_vars

CallDone(decorator) == call.pc = "done" /\ call.decorator = decorator

\* C27: a call through transactional_session that passes no session commits
\* the function's effects exactly once if it returns and not at all if it
\* raises; every failed attempt is rolled back, TimeoutError and DatabaseError
\* leave as DatabaseException, and every session obtained is removed. A call
\* that passes a session is neither committed, rolled back nor removed.
C27_TransactionalSession ==
    CallDone("transactional_session")
    => IF call.owns
       THEN /\ call.commits = IF call.outcome = "return" THEN 1 ELSE 0
            /\ call.rollbacks = Len(call.raw)
            /\ call.outcome # "return" => call.outcome = Converted(call.raw[Len(call.raw)]).type
            /\ call.outcome \notin {"TimeoutError", "DatabaseError", "OperationalError"}
            /\ call.removes = call.sessions
            /\ call.sessions = call.attempts
       ELSE /\ call.commit_calls = 0
            /\ call.rollbacks = 0
            /\ call.removes = 0
            /\ call.sessions = 0

\* A call that owned its session failed at commit, was rolled back and retried,
\* and committed in its second attempt.
C27_Witness ==
    /\ CallDone("transactional_session")
    /\ call.owns
    /\ call.outcome = "return"
    /\ call.commit_calls = 2
    /\ call.commits = 1
    /\ call.rollbacks = 1
    /\ call.removes = 2

\* The error is a connection loss with one of the codes of lines 221-227.
HasListedCode(error) == error.type = "OperationalError" /\ \E err_code \in OperationalCodes : err_code \in error.text

\* C28: a call through read_session or transactional_session that owns its
\* session and fails with an OperationalError carrying a listed connection-loss
\* code is attempted a second time; no call is attempted more than twice; a
\* failure that is not a connection error is not retried.
C28_BoundedRetry ==
    call.pc = "done"
    => /\ call.attempts <= stop_max_attempt_number
       /\ (call.owns /\ call.raw # <<>> /\ HasListedCode(call.raw[1])) => call.attempts = 2
       /\ (call.raw # <<>> /\ ~retry_if_db_connection_error(call.raw[1]) /\ ~retry_if_db_connection_error(Converted(call.raw[1])))
          => call.attempts = 1

\* C29: however the threads calling get_session interleave, create_engine and
\* sessionmaker are each called at most once, and every session returned is
\* bound to that one sessionmaker.
C29_EngineMakerSingleton ==
    /\ orm.engines <= 1
    /\ orm.makers <= 1
    /\ \A th \in Threads : orm.bound[th] # 0 => (orm.bound[th] = orm.MAKER /\ orm.MAKER = 1)

\* Two threads found no sessionmaker on line 204; one has made it and got its
\* session, the other holds the lock and is about to call get_maker.
C29_Witness ==
    \E th \in Threads, other \in Threads :
        /\ th # other
        /\ orm.pc[th] = "get_maker"
        /\ orm.MAKER = 1
        /\ orm.bound[other] = 1

====
